---- MODULE Spec2Model ----
(***************************************************************************)
(* Model of the field / filter translation engine of ac-mediator           *)
(* (services/acservice/search.py): BaseACServiceSearchMixin and            *)
(* ACServiceTextSearchMixin.                                               *)
(*                                                                         *)
(* Python values are modelled as follows.                                  *)
(*   - a value found in a provider result is a sequence of strings         *)
(*     (string formatting is sequence concatenation);                      *)
(*   - a dict is a function whose DOMAIN is the set of its keys;           *)
(*   - None, a list, a str, a number, a tuple and a pyparsing.ParseResults  *)
(*     are records [type, val, items]: val holds the characters of a str   *)
(*     or the digits of a number, items the elements of a sequence;        *)
(*   - the outcome of a call is a record [kind, value, exc, invoked,       *)
(*     warned]: kind = "return" with the returned value, or kind = "raise" *)
(*     with the name of the exception class; invoked lists the             *)
(*     extension-point methods the call has invoked and warned the         *)
(*     messages it has passed to add_response_warning, both in order.      *)
(***************************************************************************)
EXTENDS Integers, Sequences, FiniteSets, TLC

VARIABLES
    direct_fields_mapping,              \* the adapter's direct_fields_mapping property
    translate_field_methods_registry,   \* built by conf_search
    direct_filters_mapping,             \* the adapter's direct_filters_mapping property
    translate_filter_methods_registry,  \* built by conf_textsearch
    render_syntax,                      \* the adapter's render_filter_term / render_operator_term
    warnings,                           \* strings passed to add_response_warning
    op,                                 \* the operation of the last call ("none" at start)
    args,                               \* the arguments of the last call
    ret                                 \* the outcome of the last call

vars == <<direct_fields_mapping, translate_field_methods_registry,
          direct_filters_mapping, translate_filter_methods_registry,
          render_syntax, warnings, op, args, ret>>

config == <<direct_fields_mapping, translate_field_methods_registry,
            direct_filters_mapping, translate_filter_methods_registry, render_syntax>>

-----------------------------------------------------------------------------
(* Bounds of the model *)

MaxFields == 3           \* longest list of target fields of translate_single_result
MaxResponseFields == 1   \* longest list of requested fields of format_search_response
MaxResults == 2          \* longest results list of a provider response
MaxDepth == 2            \* deepest nesting of groups in a parsed filter
MaxWraps == 2            \* most pairs of parentheses put around a whole filter string
MaxSortOptions == 2      \* number of canonical sort options probed

-----------------------------------------------------------------------------
(* Render syntaxes of a provider *)

\* what render_filter_term returns
TermStyles == {"key=value", "(key=value)", "("}

\* what render_operator_term returns
OperatorStyles == {" op ", "("}

RenderSyntaxes == [term : TermStyles, operator : OperatorStyles]

KeyValueSyntax == [term |-> "key=value", operator |-> " op "]

-----------------------------------------------------------------------------
(* Universe of the field translation *)

FIELD_ID == "id"

\* canonical (Audio Commons) field names used by requests
Fields == {FIELD_ID, "name", "license"}

SERVICE_ID_FIELDNAME == "id"

\* keys of a provider's raw result
ProviderKeys == {SERVICE_ID_FIELDNAME, "title"}

\* values found under a provider key
RawValues(key) == IF key = SERVICE_ID_FIELDNAME THEN {<<"7">>} ELSE {<<"v1">>, <<"v2">>}

\* a raw result: a dict from some provider keys to values
RawResults ==
    UNION {{r \in [ks -> UNION {RawValues(k) : k \in ks}] : \A k \in ks : r[k] \in RawValues(k)}
           : ks \in SUBSET ProviderKeys}

\* total result counts a provider response reports
TotalCounts == {0, 40}

NAME == "Svc"
ACID_SEPARATOR_CHAR == ":"

id_prefix == <<NAME, ACID_SEPARATOR_CHAR>>

-----------------------------------------------------------------------------
(* Outcomes *)

Return(v, inv) == [kind |-> "return", value |-> v, exc |-> "", invoked |-> inv, warned |-> <<>>]
Raise(e, inv) == [kind |-> "raise", value |-> <<>>, exc |-> e, invoked |-> inv, warned |-> <<>>]

PyNone == [type |-> "NoneType", val |-> <<>>, items |-> <<>>]
PyList(s) == [type |-> "list", val |-> <<>>, items |-> s]

\* the sequences over S of length at most n
RECURSIVE SeqsUpTo(_, _)
SeqsUpTo(S, n) ==
    IF n = 0 THEN {<<>>}
    ELSE LET shorter == SeqsUpTo(S, n - 1)
         IN shorter \cup {Append(q, x) : q \in {t \in shorter : Len(t) = n - 1}, x \in S}

-----------------------------------------------------------------------------
(* Translator methods (the extension point decorated with translates_field) *)

\* the default translation of the id field
translate_field_id(result) ==
    IF SERVICE_ID_FIELDNAME \in DOMAIN result
    THEN Return(id_prefix \o result[SERVICE_ID_FIELDNAME], <<"translate_field_id">>)
    ELSE Raise("KeyError", <<"translate_field_id">>)

\* an adapter's translator of the name field: transforms the provider's title
translate_field_name(result) ==
    IF "title" \in DOMAIN result
    THEN Return(<<"name">> \o result["title"], <<"translate_field_name">>)
    ELSE Raise("KeyError", <<"translate_field_name">>)

\* an adapter's translator whose transform always fails
translate_field_failing(result) == Raise("IndexError", <<"translate_field_failing">>)

\* the decorated methods an adapter class can carry beside translate_field_id,
\* each with its _translates_field_name annotation
AdapterMethods ==
    {[name |-> "translate_field_name", translates |-> "name"],
     [name |-> "translate_field_failing", translates |-> "name"],
     [name |-> "translate_field_failing", translates |-> FIELD_ID]}

CallMethod(method, result) ==
    CASE method = "translate_field_id" -> translate_field_id(result)
      [] method = "translate_field_name" -> translate_field_name(result)
      [] OTHER -> translate_field_failing(result)

\* conf_search: scan the methods of the class (dir() order) and register each
\* annotated method under the field it translates; a later method replaces an
\* earlier one registered for the same field
RECURSIVE conf_search(_, _)
conf_search(methods, registry) ==
    IF methods = <<>> THEN registry
    ELSE LET m == Head(methods)
             reg == [f \in DOMAIN registry \cup {m.translates} |->
                        IF f = m.translates THEN m.name ELSE registry[f]]
         IN conf_search(Tail(methods), reg)

\* the method lists dir() can give: translate_field_id of the base class, and
\* before or after it at most one decorated method of the adapter
ClassMethodLists ==
    {<<[name |-> "translate_field_id", translates |-> FIELD_ID]>>}
    \cup {<<m, [name |-> "translate_field_id", translates |-> FIELD_ID]>> : m \in AdapterMethods}
    \cup {<<[name |-> "translate_field_id", translates |-> FIELD_ID], m>> : m \in AdapterMethods}

\* the provider key an adapter maps a field to, when it maps it directly
DirectKey(f) == IF f = FIELD_ID THEN SERVICE_ID_FIELDNAME ELSE "title"

\* the direct mappings an adapter can declare
DirectFieldMappings == {[f \in fs |-> DirectKey(f)] : fs \in SUBSET Fields}

EmptyDict == [x \in {} |-> <<>>]

-----------------------------------------------------------------------------
(* BaseACServiceSearchMixin.translate_field *)

\* the lookup of a direct mapping: result[self.direct_fields_mapping[ac_field_name]]
DirectLookup(ac_field_name, result) ==
    IF direct_fields_mapping[ac_field_name] \in DOMAIN result
    THEN Return(result[direct_fields_mapping[ac_field_name]], <<>>)
    ELSE Raise("KeyError", <<>>)

\* the body of the try statement; kind = "fallthrough" when it returns nothing
translate_field_lookup_registry_first(ac_field_name, result) ==
    IF ac_field_name \in DOMAIN translate_field_methods_registry
    THEN CallMethod(translate_field_methods_registry[ac_field_name], result)
    ELSE IF ac_field_name \in DOMAIN direct_fields_mapping
    THEN DirectLookup(ac_field_name, result)
    ELSE [Return(<<>>, <<>>) EXCEPT !.kind = "fallthrough"]

translate_field_lookup(ac_field_name, result) ==
    IF ac_field_name \in DOMAIN direct_fields_mapping
    THEN DirectLookup(ac_field_name, result)
    ELSE IF ac_field_name \in DOMAIN translate_field_methods_registry
    THEN CallMethod(translate_field_methods_registry[ac_field_name], result)
    ELSE [Return(<<>>, <<>>) EXCEPT !.kind = "fallthrough"]

\* the except clause and the final raise
translate_field_no_except(ac_field_name, result) ==
    LET r == translate_field_lookup(ac_field_name, result)
    IN IF r.kind = "fallthrough" THEN Raise("ACFieldTranslateException", r.invoked)
       ELSE r

translate_field(ac_field_name, result) ==
    LET r == translate_field_lookup(ac_field_name, result)
    IN CASE r.kind = "raise" -> Raise("ACFieldTranslateException", r.invoked)
         [] r.kind = "fallthrough" -> Raise("ACFieldTranslateException", r.invoked)
         [] OTHER -> r

-----------------------------------------------------------------------------
(* BaseACServiceSearchMixin.translate_single_result *)

\* BaseACService.add_response_warning: accumulate the message
add_response_warning(ws, message) == Append(ws, message)

\* translated_result[ac_field_name] = value
SetItem(d, key, value) == [k \in DOMAIN d \cup {key} |-> IF k = key THEN value ELSE d[k]]

\* one pass of the loop body with the except clause left out: a field that
\* cannot be translated ends the call
translate_one_field_no_except(result, ac_field_name, acc) ==
    LET r == translate_field(ac_field_name, result)
        inv == acc.invoked \o r.invoked
    IN IF r.kind = "raise"
       THEN [acc EXCEPT !.kind = "raise", !.exc = r.exc, !.value = EmptyDict, !.invoked = inv]
       ELSE [acc EXCEPT !.invoked = inv, !.value = SetItem(acc.value, ac_field_name, r.value)]

\* one pass of the loop body; acc is the outcome so far, its value the
\* translated_result dict
translate_one_field(result, ac_field_name, acc) ==
    LET r == translate_field(ac_field_name, result)
        inv == acc.invoked \o r.invoked
    IN IF r.kind = "raise"
       THEN IF r.exc = "ACFieldTranslateException"
            THEN [acc EXCEPT !.invoked = inv,
                             !.warned = add_response_warning(acc.warned,
                                 <<"Can't return unsupported field", ac_field_name>>)]
            ELSE [acc EXCEPT !.kind = "raise", !.exc = r.exc, !.value = EmptyDict,
                             !.invoked = inv]
       ELSE [acc EXCEPT !.invoked = inv, !.value = SetItem(acc.value, ac_field_name, r.value)]

\* the loop over target_fields, from position i on
RECURSIVE translate_fields_from(_, _, _, _)
translate_fields_from(result, target_fields, i, acc) ==
    IF i > Len(target_fields) \/ acc.kind = "raise" THEN acc
    ELSE translate_fields_from(result, target_fields, i + 1,
                               translate_one_field(result, target_fields[i], acc))

\* the target fields as iterated, with the guard against None left out
IterableFields_no_guard(target_fields) ==
    IF target_fields.type = "NoneType" THEN Raise("TypeError", <<>>)
    ELSE Return(target_fields.items, <<>>)

\* if target_fields is None: target_fields = list()
IterableFields(target_fields) ==
    IF target_fields.type = "NoneType" THEN Return(<<>>, <<>>)
    ELSE Return(target_fields.items, <<>>)

translate_single_result(result, target_fields) ==
    LET fields == IterableFields(target_fields)
    IN IF fields.kind = "raise" THEN fields
       ELSE translate_fields_from(result, fields.value, 1, Return(EmptyDict, <<>>))

-----------------------------------------------------------------------------
(* BaseACServiceSearchMixin.format_search_response *)

\* the provider's accessors over its raw response
get_results_list_from_response(response) == response.items
get_num_results_from_response(response) == response.total

NUM_RESULTS_PROP == "num_results"
RESULTS_LIST == "results"

\* common_search_params.get('fields', None)
GetFields(common_search_params) ==
    IF "fields" \in DOMAIN common_search_params
    THEN common_search_params["fields"]
    ELSE PyNone

\* the loop over the results list, from position i on; acc is the outcome so
\* far, its value the list of translated results
RECURSIVE format_results_from(_, _, _, _)
format_results_from(raw_results, target_fields, i, acc) ==
    IF i > Len(raw_results) THEN acc
    ELSE LET r == translate_single_result(raw_results[i], target_fields)
             inv == acc.invoked \o r.invoked
             wrn == acc.warned \o r.warned
         IN IF r.kind = "raise"
            THEN [acc EXCEPT !.kind = "raise", !.exc = r.exc, !.value = <<>>,
                             !.invoked = inv, !.warned = wrn]
            ELSE format_results_from(raw_results, target_fields, i + 1,
                    [acc EXCEPT !.value = Append(acc.value, r.value),
                                !.invoked = inv, !.warned = wrn])

format_search_response(response, common_search_params) ==
    LET r == format_results_from(get_results_list_from_response(response),
                                 GetFields(common_search_params), 1, Return(<<>>, <<>>))
    IN IF r.kind = "raise" THEN r
       ELSE [r EXCEPT !.value = [num_results |-> get_num_results_from_response(response),
                                 results |-> r.value]]

-----------------------------------------------------------------------------
(* Inputs of the calls *)

TargetFields == {PyNone} \cup {PyList(fs) : fs \in SeqsUpTo(Fields, MaxFields)}

RequestedFields == {PyNone} \cup {PyList(fs) : fs \in SeqsUpTo(Fields, MaxResponseFields)}

CommonSearchParams == {EmptyDict} \cup {[k \in {"fields"} |-> t] : t \in RequestedFields}

Responses == [items : SeqsUpTo(RawResults, MaxResults), total : TotalCounts]

-----------------------------------------------------------------------------
\* an adapter whose field translation is configured in every way the model
\* covers, and that declares no filter translation
InitFields ==
    /\ direct_fields_mapping \in DirectFieldMappings
    /\ \E ms \in ClassMethodLists :
          translate_field_methods_registry = conf_search(ms, EmptyDict)
    /\ direct_filters_mapping = EmptyDict
    /\ translate_filter_methods_registry = EmptyDict
    /\ render_syntax = KeyValueSyntax
    /\ warnings = <<>>
    /\ op = "none"
    /\ args = <<>>
    /\ ret = Return(<<>>, <<>>)

TranslateField ==
    /\ op = "none"
    /\ \E f \in Fields, r \in RawResults :
          /\ op' = "translate_field"
          /\ args' = [ac_field_name |-> f, result |-> r]
          /\ ret' = translate_field(f, r)
    /\ UNCHANGED <<config, warnings>>

TranslateSingleResult ==
    /\ op = "none"
    /\ \E r \in RawResults, t \in TargetFields :
          /\ op' = "translate_single_result"
          /\ args' = [result |-> r, target_fields |-> t]
          /\ ret' = translate_single_result(r, t)
          /\ warnings' = warnings \o ret'.warned
    /\ UNCHANGED config

FormatSearchResponse ==
    /\ op = "none"
    /\ \E resp \in Responses, p \in CommonSearchParams :
          /\ op' = "format_search_response"
          /\ args' = [response |-> resp, common_search_params |-> p]
          /\ ret' = format_search_response(resp, p)
          /\ warnings' = warnings \o ret'.warned
    /\ UNCHANGED config

NextFields ==
    \/ TranslateField
    \/ TranslateSingleResult
    \/ FormatSearchResponse

SpecFields == InitFields /\ [][NextFields]_vars

-----------------------------------------------------------------------------
(* Field translation: properties *)

\* the positions of a field list whose translation fails on the result
FailingPositions(fields, result) ==
    {i \in 1..Len(fields) : translate_field_lookup(fields[i], result).kind # "return"}

\* C1: for a field with a direct mapping whose mapped key is in the result,
\* translate_field returns result[mapped_key] unchanged and invokes no
\* translator method, also when a translator is registered for the field.
C1_DirectMappingUnchanged ==
    (/\ op = "translate_field"
     /\ args.ac_field_name \in DOMAIN direct_fields_mapping
     /\ direct_fields_mapping[args.ac_field_name] \in DOMAIN args.result)
    => /\ ret.kind = "return"
       /\ ret.value = args.result[direct_fields_mapping[args.ac_field_name]]
       /\ ret.invoked = <<>>

C1_Witness ==
    /\ op = "translate_field"
    /\ args.ac_field_name \in DOMAIN direct_fields_mapping
    /\ args.ac_field_name \in DOMAIN translate_field_methods_registry
    /\ direct_fields_mapping[args.ac_field_name] \in DOMAIN args.result
    /\ CallMethod(translate_field_methods_registry[args.ac_field_name], args.result).kind = "return"
    /\ ret.value = <<"7">>

\* C2: translate_field raises ACFieldTranslateException, and nothing else, when
\* the field has neither a direct mapping nor a translator, when the directly
\* mapped key is absent from the result, and when the translator raises.
C2_FailsWithFieldTranslateError ==
    (/\ op = "translate_field"
     /\ LET f == args.ac_field_name
             r == args.result
         IN \/ /\ f \notin DOMAIN direct_fields_mapping
               /\ f \notin DOMAIN translate_field_methods_registry
            \/ /\ f \in DOMAIN direct_fields_mapping
               /\ direct_fields_mapping[f] \notin DOMAIN r
            \/ /\ f \notin DOMAIN direct_fields_mapping
               /\ f \in DOMAIN translate_field_methods_registry
               /\ CallMethod(translate_field_methods_registry[f], r).kind = "raise")
    => /\ ret.kind = "raise"
       /\ ret.exc = "ACFieldTranslateException"

C2_Witness ==
    /\ op = "translate_field"
    /\ args.ac_field_name \notin DOMAIN direct_fields_mapping
    /\ args.ac_field_name \in DOMAIN translate_field_methods_registry
    /\ translate_field_methods_registry[args.ac_field_name] = "translate_field_name"
    /\ ret.invoked = <<"translate_field_name">>
    /\ ret.kind = "raise"

\* C3: translate_single_result always returns; the keys of the returned dict
\* are the requested fields whose translation succeeds, each with its
\* translated value, and one warning is added, in order, for each requested
\* field whose translation raises.
C3_PartialResult ==
    op = "translate_single_result"
    => LET fields == args.target_fields.items
           failing == FailingPositions(fields, args.result)
       IN /\ ret.kind = "return"
          /\ DOMAIN ret.value = {fields[i] : i \in (1..Len(fields)) \ failing}
          /\ \A f \in DOMAIN ret.value :
                ret.value[f] = translate_field_lookup(f, args.result).value
          /\ Len(ret.warned) = Cardinality(failing)
          /\ ret.warned = [n \in 1..Len(ret.warned) |->
                             <<"Can't return unsupported field",
                               SelectSeq(fields, LAMBDA f :
                                  translate_field_lookup(f, args.result).kind # "return")[n]>>]
          /\ warnings = ret.warned

C3_Witness ==
    /\ op = "translate_single_result"
    /\ Len(args.target_fields.items) = 3
    /\ Cardinality(DOMAIN ret.value) = 2
    /\ Len(warnings) = 1

\* C4: with the requested fields unset, None or empty, format_search_response
\* returns without a warning one empty dict per raw result and the total count
\* of get_num_results_from_response.
C4_NoFieldsRequested ==
    (/\ op = "format_search_response"
     /\ GetFields(args.common_search_params).items = <<>>)
    => /\ ret.kind = "return"
       /\ ret.warned = <<>>
       /\ warnings = <<>>
       /\ Len(ret.value[RESULTS_LIST]) = Len(args.response.items)
       /\ \A i \in 1..Len(ret.value[RESULTS_LIST]) : ret.value[RESULTS_LIST][i] = EmptyDict
       /\ ret.value[NUM_RESULTS_PROP] = args.response.total

C4_Witness ==
    /\ op = "format_search_response"
    /\ "fields" \in DOMAIN args.common_search_params
    /\ args.common_search_params["fields"] = PyNone
    /\ Len(args.response.items) = 2
    /\ args.response.total = 40
    /\ ret.kind = "return"
    /\ Len(ret.value[RESULTS_LIST]) = 2

-----------------------------------------------------------------------------
(* Python values of the filter translation *)

PyStr(chars) == [type |-> "str", val |-> chars, items |-> <<>>]
PyInt(digits) == [type |-> "int", val |-> digits, items |-> <<>>]
PyParseResults(items) == [type |-> "ParseResults", val |-> <<>>, items |-> items]
PyTuple(items) == [type |-> "tuple", val |-> <<>>, items |-> items]

LowerCase == <<"a", "b", "c", "d", "e", "f", "g", "h", "i", "j", "k", "l", "m",
               "n", "o", "p", "q", "r", "s", "t", "u", "v", "w", "x", "y", "z">>
UpperCase == <<"A", "B", "C", "D", "E", "F", "G", "H", "I", "J", "K", "L", "M",
               "N", "O", "P", "Q", "R", "S", "T", "U", "V", "W", "X", "Y", "Z">>

\* str.upper()
Upper(chars) ==
    [i \in 1..Len(chars) |->
        IF \E n \in 1..26 : LowerCase[n] = chars[i]
        THEN UpperCase[CHOOSE n \in 1..26 : LowerCase[n] = chars[i]]
        ELSE chars[i]]

\* whether len(x) is defined
HasLen(x) == x.type \in {"str", "ParseResults", "tuple", "list"}

\* len(x)
PyLen(x) == IF x.type = "str" THEN Len(x.val) ELSE Len(x.items)

\* x[i], i counted from 0
Item(x, i) == IF x.type = "str" THEN PyStr(<<x.val[i + 1]>>) ELSE x.items[i + 1]

AND == <<"A", "N", "D">>
OR == <<"O", "R">>
NOT == <<"N", "O", "T">>

-----------------------------------------------------------------------------
(* Translator methods (the extension point decorated with                   *)
(* translates_filter_for_field); a translator returns a (key, value) tuple  *)

\* a translator that converts seconds to milliseconds under the key "ms"
translate_filter_scale(value) ==
    IF value.type = "int"
    THEN Return(PyTuple(<<PyStr(<<"m", "s">>), PyInt(value.val \o <<"0", "0", "0">>)>>), <<>>)
    ELSE Raise("ValueError", <<>>)

\* a translator whose provider key depends on the value
translate_filter_by_value(value) ==
    IF value = PyInt(<<"1">>)
    THEN Return(PyTuple(<<PyStr(<<"l", "o">>), value>>), <<>>)
    ELSE Return(PyTuple(<<PyStr(<<"h", "i">>), value>>), <<>>)

\* a translator that always fails
translate_filter_failing(value) == Raise("ValueError", <<>>)

PyBool(b) == [type |-> "bool", val |-> <<IF b THEN "True" ELSE "False">>, items |-> <<>>]

\* a translator of a yes/no field to a boolean flag of the provider
translate_filter_flag(value) ==
    Return(PyTuple(<<PyStr(<<"f", "l", "a", "g">>), PyBool(value = PyInt(<<"1">>))>>), <<>>)

\* a translator to a provider field that takes a list of values
translate_filter_any_of(value) ==
    Return(PyTuple(<<PyStr(<<"a", "n", "y">>), PyList(<<value>>)>>), <<>>)

\* a translator that has no provider value for the filter value
translate_filter_no_value(value) == Return(PyTuple(<<PyStr(<<"n", "v">>), PyNone>>), <<>>)

CallFilterMethod(method, value) ==
    CASE method = "translate_filter_scale" -> translate_filter_scale(value)
      [] method = "translate_filter_by_value" -> translate_filter_by_value(value)
      [] method = "translate_filter_flag" -> translate_filter_flag(value)
      [] method = "translate_filter_any_of" -> translate_filter_any_of(value)
      [] method = "translate_filter_no_value" -> translate_filter_no_value(value)
      [] OTHER -> translate_filter_failing(value)

\* canonical names of the fields a filter can name
FA == <<"a">>
FB == <<"b">>
FC == <<"c">>
FilterFields == {FA, FB, FC}

\* the filter translations an adapter can declare: a direct mapping of all the
\* fields, of some or of none, and a registry with no translator, a translator
\* for a, or translators for a and b
FilterAdapters ==
    {[direct |-> d, registry |-> r] :
        d \in {[f \in {FA, FB, FC} |-> f], [f \in {FB, FC} |-> f],
               [f \in {FA} |-> <<"p", "a">>], EmptyDict},
        r \in {EmptyDict,
               [f \in {FA} |-> "translate_filter_failing"],
               [f \in {FA} |-> "translate_filter_scale"],
               [f \in {FA} |-> "translate_filter_by_value"],
               [f \in {FA, FB} |-> IF f = FA THEN "translate_filter_by_value"
                                              ELSE "translate_filter_scale"]}}

-----------------------------------------------------------------------------
(* ACServiceTextSearchMixin.translate_filter *)

CallLog(fn, key, kw, value) == [fn |-> fn, key |-> key, kw |-> kw, value |-> value]

\* the body of the try statement; ac_field_name is the characters of the
\* field's name. A field in neither mapping is a KeyError of the registry
translate_filter_lookup_registry_first(ac_field_name, value) ==
    IF ac_field_name \in DOMAIN translate_filter_methods_registry
    THEN CallFilterMethod(translate_filter_methods_registry[ac_field_name], value)
    ELSE IF ac_field_name \in DOMAIN direct_filters_mapping
    THEN Return(PyTuple(<<PyStr(direct_filters_mapping[ac_field_name]), value>>), <<>>)
    ELSE Raise("KeyError", <<>>)

translate_filter_lookup(ac_field_name, value) ==
    IF ac_field_name \in DOMAIN direct_filters_mapping
    THEN Return(PyTuple(<<PyStr(direct_filters_mapping[ac_field_name]), value>>), <<>>)
    ELSE IF ac_field_name \in DOMAIN translate_filter_methods_registry
    THEN CallFilterMethod(translate_filter_methods_registry[ac_field_name], value)
    ELSE Raise("KeyError", <<>>)

\* the registry after a lookup of the key, were a missing key given an entry
registry_after_lookup_inserting(registry, key) ==
    IF key \in DOMAIN registry THEN registry
    ELSE [k \in DOMAIN registry \cup {key} |->
             IF k = key THEN "translate_filter_failing" ELSE registry[k]]

\* the registry after registry[key]: it is a dict(), the lookup of a missing
\* key raises KeyError and adds no entry
registry_after_lookup(registry, key) == registry

\* the registry after translate_filter: looked up for a field without a
\* direct mapping
translate_filter_registry(ac_field_name) ==
    IF ac_field_name \in DOMAIN direct_filters_mapping
    THEN translate_filter_methods_registry
    ELSE registry_after_lookup(translate_filter_methods_registry, ac_field_name)

\* the except clauses: every exception leaves as ACFilterParsingException
translate_filter(ac_field_name, value) ==
    LET r == translate_filter_lookup(ac_field_name, value)
    IN IF r.kind = "raise" THEN Raise("ACFilterParsingException", <<>>) ELSE r

-----------------------------------------------------------------------------
(* The render primitives of a provider. Its filter syntax is key=value,     *)
(* key=[low,high] and the operator between spaces, or one of the other      *)
(* strings a provider may return: the term in parentheses of its own, or    *)
(* the one-character string "(" for a term or for an operator               *)

\* the term in the key=value syntax
key_value_term(key, kw, value) ==
    CASE kw \in {"value_number", "value_text"} -> key.val \o <<"=">> \o value.val
      [] kw = "value_range" ->
            key.val \o <<"=", "[">> \o value.items[1].val \o <<",">>
                    \o value.items[2].val \o <<"]">>
      [] OTHER -> key.val \o <<"=">>

render_filter_term(key, kw, value) ==
    CASE render_syntax.term = "(" -> <<"(">>
      [] render_syntax.term = "(key=value)" ->
            <<"(">> \o key_value_term(key, kw, value) \o <<")">>
      [] OTHER -> key_value_term(key, kw, value)

render_operator_term(operator) ==
    IF render_syntax.operator = "(" THEN <<"(">> ELSE <<" ">> \o operator \o <<" ">>

OpenParen == <<"(">>
CloseParen == <<")">>

-----------------------------------------------------------------------------
(* ACServiceTextSearchMixin.process_filter_element *)

is_filter_term(parse_results) ==
    PyLen(parse_results) = 3 /\ Item(parse_results, 1) = PyStr(<<":">>)

is_operator(parse_results) ==
    parse_results.type = "str" /\ Upper(parse_results.val) \in {AND, OR, NOT}

\* parse_results[0].upper() == 'NOT', False when the expression raises
is_not_structure(parse_results) ==
    /\ HasLen(parse_results)
    /\ PyLen(parse_results) >= 1
    /\ Item(parse_results, 0).type = "str"
    /\ Upper(Item(parse_results, 0).val) = NOT

\* the translation of a range, were the bounds taken in the other order
translate_range_swapped(fkey, fvalue) ==
    LET r1 == translate_filter(fkey.val, Item(fvalue, 1))
        r2 == translate_filter(fkey.val, Item(fvalue, 0))
        log == <<CallLog("translate_filter", fkey, "", Item(fvalue, 1)),
                 CallLog("translate_filter", fkey, "", Item(fvalue, 0))>>
    IN IF r1.kind = "raise" THEN [r1 EXCEPT !.invoked = SubSeq(log, 1, 1)]
       ELSE IF r2.kind = "raise" THEN [r2 EXCEPT !.invoked = log]
       ELSE Return(PyTuple(<<r1.value.items[1],
                             PyTuple(<<r1.value.items[2], r2.value.items[2]>>)>>), log)

\* the translation of a range, were the key of the second bound the one kept
translate_range_second_key(fkey, fvalue) ==
    LET r1 == translate_filter(fkey.val, Item(fvalue, 0))
        r2 == translate_filter(fkey.val, Item(fvalue, 1))
        log == <<CallLog("translate_filter", fkey, "", Item(fvalue, 0)),
                 CallLog("translate_filter", fkey, "", Item(fvalue, 1))>>
    IN IF r1.kind = "raise" THEN [r1 EXCEPT !.invoked = SubSeq(log, 1, 1)]
       ELSE IF r2.kind = "raise" THEN [r2 EXCEPT !.invoked = log]
       ELSE Return(PyTuple(<<r2.value.items[1],
                             PyTuple(<<r1.value.items[2], r2.value.items[2]>>)>>), log)

\* the translation of a range: each bound by itself, the key of the first
translate_range(fkey, fvalue) ==
    LET r1 == translate_filter(fkey.val, Item(fvalue, 0))
        r2 == translate_filter(fkey.val, Item(fvalue, 1))
        log == <<CallLog("translate_filter", fkey, "", Item(fvalue, 0)),
                 CallLog("translate_filter", fkey, "", Item(fvalue, 1))>>
    IN IF r1.kind = "raise" THEN [r1 EXCEPT !.invoked = SubSeq(log, 1, 1)]
       ELSE IF r2.kind = "raise" THEN [r2 EXCEPT !.invoked = log]
       ELSE Return(PyTuple(<<r1.value.items[1],
                             PyTuple(<<r1.value.items[2], r2.value.items[2]>>)>>), log)

\* the translation of the key and the value of a filter term: (key, value)
translate_term(fkey, fvalue) ==
    IF fvalue.type = "ParseResults" /\ PyLen(fvalue) = 2
    THEN translate_range(fkey, fvalue)
    ELSE [translate_filter(fkey.val, fvalue) EXCEPT
             !.invoked = <<CallLog("translate_filter", fkey, "", fvalue)>>]

\* the keyword under which render_filter_term gets the value
ValueKeyword(value) ==
    CASE value.type \in {"int", "float"} -> "value_number"
      [] value.type = "str" -> "value_text"
      [] value.type = "tuple" /\ PyLen(value) = 2 -> "value_range"
      [] OTHER -> "none"

\* the branch of a filter term; acc is the outcome so far, its value the
\* filter_list
process_term(elm, acc) ==
    LET t == translate_term(Item(elm, 0), Item(elm, 2))
        log == acc.invoked \o t.invoked
    IN IF t.kind = "raise"
       THEN [acc EXCEPT !.kind = "raise", !.exc = t.exc, !.invoked = log]
       ELSE LET key == t.value.items[1]
                value == t.value.items[2]
                kw == ValueKeyword(value)
            IN [acc EXCEPT
                  !.value = Append(acc.value, render_filter_term(key, kw, value)),
                  !.invoked = Append(log, CallLog("render_filter_term", key, kw, value))]

\* the branch of an operator
process_operator(elm, acc) ==
    [acc EXCEPT
       !.value = Append(acc.value, render_operator_term(Upper(elm.val))),
       !.invoked = Append(acc.invoked,
                          CallLog("render_operator_term", PyStr(Upper(elm.val)), "", PyNone))]

\* whether the group gets parentheses of its own, were every group given them
NeedsParens_always(elm) == TRUE

\* whether the group gets parentheses of its own
NeedsParens(elm) == ~is_not_structure(elm)

\* the order in which the items of a group are processed, were it reversed
ItemsInOrder_reversed(elm) == [i \in 1..Len(elm.items) |-> elm.items[Len(elm.items) + 1 - i]]

\* the order in which the items of a group are processed: for item in elm
ItemsInOrder(elm) == elm.items

AppendToken(acc, token) ==
    IF acc.kind = "raise" THEN acc ELSE [acc EXCEPT !.value = Append(acc.value, token)]

RECURSIVE process_filter_element(_, _)
RECURSIVE process_items(_, _, _)

\* for item in elm: self.process_filter_element(item, filter_list)
process_items(items, i, acc) ==
    IF i > Len(items) \/ acc.kind = "raise" THEN acc
    ELSE process_items(items, i + 1, process_filter_element(items[i], acc))

process_filter_element(elm, acc) ==
    IF ~HasLen(elm)
    THEN [acc EXCEPT !.kind = "raise", !.exc = "TypeError"]
    ELSE IF is_filter_term(elm) THEN process_term(elm, acc)
    ELSE IF is_operator(elm) THEN process_operator(elm, acc)
    ELSE IF elm.type = "ParseResults"
    THEN LET opened == IF NeedsParens(elm) THEN AppendToken(acc, OpenParen) ELSE acc
             walked == process_items(ItemsInOrder(elm), 1, opened)
         IN IF NeedsParens(elm) THEN AppendToken(walked, CloseParen) ELSE walked
    ELSE [acc EXCEPT !.kind = "raise", !.exc = "ACFilterParsingException"]

-----------------------------------------------------------------------------
(* ACServiceTextSearchMixin.build_filter_string, from the parsed filter on  *)

\* the list without its first and last positions, were it never cut
StripRedundant_never(out_filter_list) == out_filter_list

\* if out_filter_list[0] == '(': out_filter_list = out_filter_list[1: -1]
StripRedundant(out_filter_list) ==
    IF out_filter_list[1] = OpenParen
    THEN SubSeq(out_filter_list, 2, Len(out_filter_list) - 1)
    ELSE out_filter_list

\* ''.join(out_filter_list)
RECURSIVE Join(_)
Join(tokens) == IF tokens = <<>> THEN <<>> ELSE Head(tokens) \o Join(Tail(tokens))

\* the statements after the parse; the value of the outcome holds the
\* filter string and the list it is joined from
render_parsed_filter(parsed_filter) ==
    CHOOSE rendered \in
      {IF r.kind = "raise" THEN [r EXCEPT !.value = <<>>]
       ELSE IF r.value = <<>> THEN [r EXCEPT !.kind = "raise", !.exc = "IndexError"]
       ELSE CHOOSE joined \in
              {[r EXCEPT !.value = [filter_string |-> Join(out_filter_list),
                                    out_filter_list |-> out_filter_list]]
               : out_filter_list \in {StripRedundant(r.value)}} : TRUE
       : r \in {process_filter_element(Item(parsed_filter, 0), Return(<<>>, <<>>))}} : TRUE

-----------------------------------------------------------------------------
(* Parsed filters: the nested lists of services.acservice.utils.parse_filter *)

\* a filter term (field_name, ":", filter_value)
Term(field, value) == PyParseResults(<<PyStr(field), PyStr(<<":">>), value>>)

\* the value of a range term
Range(low, high) == PyParseResults(<<low, high>>)

Group(items) == PyParseResults(items)

TermA1 == Term(FA, PyInt(<<"1">>))
TermB2 == Term(FB, PyInt(<<"2">>))
TermC3 == Term(FC, PyInt(<<"3">>))
TermA15 == Term(FA, Range(PyInt(<<"1">>), PyInt(<<"5">>)))
TermBwav == Term(FB, PyStr(<<"w", "a", "v">>))

FilterTerms == {TermA1, TermB2, TermC3, TermA15, TermBwav}

NotGroup(operand) == Group(<<PyStr(NOT), operand>>)

\* the right operands of a binary operator: a term or a negated term
RightOperands == {TermB2, TermC3, TermA15} \cup {NotGroup(TermC3)}

\* the filter elements nested at most d groups deep
RECURSIVE Elements(_)
Elements(d) ==
    IF d = 0 THEN FilterTerms
    ELSE LET sub == Elements(d - 1)
         IN FilterTerms
            \cup {NotGroup(x) : x \in sub}
            \cup {Group(<<x, PyStr(o), y>>) : x \in sub, o \in {AND, OR}, y \in RightOperands}

\* elements met at the root only: longer chains, operators in lower case,
\* a group of a single element
RootElements ==
    {Group(<<x, PyStr(AND), y, PyStr(OR), z>>) : x \in {TermA1, TermBwav}, y \in {TermB2}, z \in {TermC3, TermA15}}
    \cup {Group(<<x, PyStr(<<"a", "n", "d">>), NotGroup(y)>>) : x \in {TermA1}, y \in {TermB2, TermC3}}
    \cup {Group(<<PyStr(<<"n", "o", "t">>), x>>) : x \in {TermA1, TermA15}}
    \cup {Group(<<x>>) : x \in FilterTerms \cup {NotGroup(TermC3), Group(<<TermA1, PyStr(OR), TermB2>>)}}

FilterElements == Elements(MaxDepth) \cup RootElements

\* the values a filter is translated for
FilterValues == {PyInt(<<"1">>), PyInt(<<"5">>), PyStr(<<"w", "a", "v">>)}

-----------------------------------------------------------------------------
(* services.acservice.utils.parse_filter, after the grammar of the filter   *)
(* syntax:                                                                  *)
(*     expr := term (operator term)*        operator := "AND" | "OR"        *)
(*     term := field ":" value | "(" expr ")" | "NOT" term                  *)
(* A filter string is its sequence of tokens (white space between tokens is *)
(* insignificant); a token is a parenthesis, an operator or a whole         *)
(* field:value term.                                                        *)

Token(kind, node) == [kind |-> kind, node |-> node]
LPar == Token("lpar", PyNone)
RPar == Token("rpar", PyNone)

\* a group that is not a filter term
IsGroup(node) == node.type = "ParseResults" /\ ~is_filter_term(node)

\* the group of a parenthesized expression; parentheses around what is
\* already one group add no level
AsGroup(children) ==
    IF Len(children) = 1 /\ IsGroup(children[1]) THEN children[1] ELSE Group(children)

ParseFail == [ok |-> FALSE, nodes |-> <<>>, next |-> 0]

RECURSIVE ParseTerm(_, _)
RECURSIVE ParseExpr(_, _)
RECURSIVE ParseMore(_, _, _)

\* term, from token i on: the node parsed and the position after it
ParseTerm(tokens, i) ==
    IF i > Len(tokens) THEN ParseFail
    ELSE LET tok == tokens[i]
         IN CASE tok.kind = "term" -> [ok |-> TRUE, nodes |-> <<tok.node>>, next |-> i + 1]
              [] tok.kind = "lpar" ->
                    LET e == ParseExpr(tokens, i + 1)
                    IN IF e.ok /\ e.next <= Len(tokens) /\ tokens[e.next].kind = "rpar"
                       THEN [ok |-> TRUE, nodes |-> <<AsGroup(e.nodes)>>, next |-> e.next + 1]
                       ELSE ParseFail
              [] tok.kind = "op" /\ Upper(tok.node.val) = NOT ->
                    LET t == ParseTerm(tokens, i + 1)
                    IN IF t.ok
                       THEN [ok |-> TRUE, nodes |-> <<Group(<<tok.node>> \o t.nodes)>>,
                             next |-> t.next]
                       ELSE ParseFail
              [] OTHER -> ParseFail

\* (operator term)*, from token i on, after the nodes parsed so far
ParseMore(tokens, i, nodes) ==
    IF i <= Len(tokens) /\ tokens[i].kind = "op" /\ Upper(tokens[i].node.val) \in {AND, OR}
    THEN LET t == ParseTerm(tokens, i + 1)
         IN IF t.ok THEN ParseMore(tokens, t.next, nodes \o <<tokens[i].node>> \o t.nodes)
            ELSE ParseFail
    ELSE [ok |-> TRUE, nodes |-> nodes, next |-> i]

ParseExpr(tokens, i) ==
    LET t == ParseTerm(tokens, i)
    IN IF t.ok THEN ParseMore(tokens, t.next, t.nodes) ELSE ParseFail

\* the parse results hold the root group as their first element
parse_filter(filter_string) ==
    LET e == ParseExpr(filter_string, 1)
    IN IF e.ok /\ e.next = Len(filter_string) + 1
       THEN Return(PyParseResults(<<AsGroup(e.nodes)>>), <<>>)
       ELSE Raise("ParseException", <<>>)

-----------------------------------------------------------------------------
(* ACServiceTextSearchMixin.build_filter_string *)

build_filter_string(filter_input_value) ==
    CHOOSE built \in
      {IF parsed_filter.kind = "raise"
       THEN Raise("ACFilterParsingException", <<>>)
       ELSE render_parsed_filter(parsed_filter.value)
       : parsed_filter \in {parse_filter(filter_input_value)}} : TRUE

-----------------------------------------------------------------------------
(* Filter strings *)

\* the filter string of a filter element
RECURSIVE Unparse(_, _)
RECURSIVE UnparseItems(_, _)
UnparseItems(items, i) ==
    IF i > Len(items) THEN <<>> ELSE Unparse(items[i], FALSE) \o UnparseItems(items, i + 1)

Unparse(node, is_root) ==
    CASE node.type = "str" -> <<Token("op", node)>>
      [] is_filter_term(node) -> <<Token("term", node)>>
      [] is_root \/ is_not_structure(node) -> UnparseItems(node.items, 1)
      [] OTHER -> <<LPar>> \o UnparseItems(node.items, 1) \o <<RPar>>

\* the filter string in n more pairs of parentheses
RECURSIVE Wrap(_, _)
Wrap(filter_string, n) ==
    IF n = 0 THEN filter_string ELSE <<LPar>> \o Wrap(filter_string, n - 1) \o <<RPar>>

\* filter strings outside the grammar
MalformedFilterStrings ==
    {<<>>, <<LPar>>, <<LPar, Token("term", TermA1)>>, <<Token("term", TermA1), RPar>>,
     <<Token("term", TermA1), Token("term", TermB2)>>,
     <<Token("term", TermA1), Token("op", PyStr(AND))>>,
     <<Token("op", PyStr(OR)), Token("term", TermA1)>>,
     <<Token("op", PyStr(NOT))>>, <<LPar, RPar>>,
     <<Token("term", TermA1), Token("op", PyStr(NOT)), Token("term", TermB2)>>}

FilterStrings ==
    {Unparse(elm, TRUE) : elm \in Elements(MaxDepth)}
    \cup {Wrap(Unparse(elm, TRUE), n) : elm \in Elements(1), n \in 1..MaxWraps}
    \cup MalformedFilterStrings

-----------------------------------------------------------------------------
\* an adapter whose filter translation is configured in every way the model
\* covers, with the field translation of the base class
InitFilters ==
    /\ direct_fields_mapping = EmptyDict
    /\ translate_field_methods_registry
          = conf_search(<<[name |-> "translate_field_id", translates |-> FIELD_ID]>>, EmptyDict)
    /\ \E a \in FilterAdapters :
          /\ direct_filters_mapping = a.direct
          /\ translate_filter_methods_registry = a.registry
    /\ render_syntax = KeyValueSyntax
    /\ warnings = <<>>
    /\ op = "none"
    /\ args = <<>>
    /\ ret = Return(<<>>, <<>>)

TranslateFilter ==
    /\ op = "none"
    /\ \E f \in FilterFields, v \in FilterValues :
          /\ op' = "translate_filter"
          /\ args' = [ac_field_name |-> f, value |-> v]
          /\ ret' = translate_filter(f, v)
          /\ translate_filter_methods_registry' = translate_filter_registry(f)
    /\ UNCHANGED <<direct_fields_mapping, translate_field_methods_registry,
                   direct_filters_mapping, render_syntax, warnings>>

ProcessFilterElement ==
    /\ op = "none"
    /\ \E elm \in FilterElements :
          /\ op' = "process_filter_element"
          /\ args' = [elm |-> elm, filter_list |-> <<>>]
          /\ ret' = process_filter_element(elm, Return(<<>>, <<>>))
    /\ UNCHANGED <<config, warnings>>

BuildFilterString ==
    /\ op = "none"
    /\ \E f \in FilterStrings :
          /\ op' = "build_filter_string"
          /\ args' = [filter_input_value |-> f]
          /\ ret' = build_filter_string(f)
    /\ UNCHANGED <<config, warnings>>

NextFilters ==
    \/ TranslateFilter
    \/ ProcessFilterElement
    \/ BuildFilterString

SpecFilters == InitFilters /\ [][NextFilters]_vars

-----------------------------------------------------------------------------
(* Filter rendering: properties *)

\* the terms and operators of a filter element, depth first, left to right
RECURSIVE Leaves(_)
RECURSIVE LeavesOfItems(_, _)
LeavesOfItems(items, i) ==
    IF i > Len(items) THEN <<>> ELSE Leaves(items[i]) \o LeavesOfItems(items, i + 1)

Leaves(node) ==
    IF node.type = "str" \/ is_filter_term(node) THEN <<node>>
    ELSE LeavesOfItems(node.items, 1)

\* whether the filter of every term of the sequence can be translated
Translatable(leaves) ==
    \A i \in 1..Len(leaves) :
       leaves[i].type # "str" => translate_term(Item(leaves[i], 0), Item(leaves[i], 2)).kind = "return"

\* the token a term or an operator is rendered to
LeafToken(leaf) ==
    IF leaf.type = "str" THEN render_operator_term(Upper(leaf.val))
    ELSE LET t == translate_term(Item(leaf, 0), Item(leaf, 2)).value
         IN render_filter_term(t.items[1], ValueKeyword(t.items[2]), t.items[2])

IsParen(token) == token \in {OpenParen, CloseParen}

WithoutParens(tokens) == SelectSeq(tokens, LAMBDA t : ~IsParen(t))

\* the calls of the render primitives among the calls logged
RenderCalls(log) == SelectSeq(log, LAMBDA c : c.fn # "translate_filter")

\* the rendered list holds, parentheses apart, one token per term and operator
\* of the element, in their order, from one call of a render primitive each
StructurePreserved(elm, outcome, tokens) ==
    LET leaves == Leaves(elm)
    IN /\ outcome.kind = "return" <=> Translatable(leaves)
       /\ outcome.kind = "return" =>
             /\ WithoutParens(tokens) = [i \in 1..Len(leaves) |-> LeafToken(leaves[i])]
             /\ Len(RenderCalls(outcome.invoked)) = Len(leaves)
             /\ \A i \in 1..Len(leaves) :
                   RenderCalls(outcome.invoked)[i].fn
                      = IF leaves[i].type = "str" THEN "render_operator_term"
                        ELSE "render_filter_term"

\* the root of the parsed filter of a filter string inside the grammar
RootOf(filter_string) == Item(parse_filter(filter_string).value, 0)

\* C5: rendering preserves the structure: process_filter_element and
\* build_filter_string emit one rendered term per term and one rendered
\* operator per operator of the parsed filter, depth first and left to right.
C5_StructurePreserved ==
    /\ op = "process_filter_element" => StructurePreserved(args.elm, ret, ret.value)
    /\ (op = "build_filter_string" /\ parse_filter(args.filter_input_value).kind = "return")
       => StructurePreserved(RootOf(args.filter_input_value), ret, ret.value.out_filter_list)

IdentityAdapter ==
    /\ direct_filters_mapping = [f \in FilterFields |-> f]
    /\ translate_filter_methods_registry = EmptyDict

C5_Witness ==
    /\ op = "build_filter_string"
    /\ IdentityAdapter
    /\ args.filter_input_value
          = <<Token("term", TermA1), Token("op", PyStr(AND)), Token("term", TermB2)>>
    /\ RootOf(args.filter_input_value) = Group(<<TermA1, PyStr(AND), TermB2>>)
    /\ ret.kind = "return"
    /\ ret.value.filter_string = <<"a", "=", "1", " ", "A", "N", "D", " ", "b", "=", "2">>

\* a group whose first element is the NOT operator
IsNotGroup(node) ==
    /\ IsGroup(node)
    /\ Len(node.items) >= 1
    /\ node.items[1].type = "str"
    /\ Upper(node.items[1].val) = NOT

\* the tokens of an element whose terms can all be translated: a group that is
\* neither bare nor a NOT-group has its items between parentheses
RECURSIVE ExpectedTokens(_, _)
RECURSIVE ExpectedOfItems(_, _)
ExpectedOfItems(items, i) ==
    IF i > Len(items) THEN <<>>
    ELSE ExpectedTokens(items[i], FALSE) \o ExpectedOfItems(items, i + 1)

ExpectedTokens(node, bare) ==
    IF node.type = "str" \/ is_filter_term(node) THEN <<LeafToken(node)>>
    ELSE IF bare \/ IsNotGroup(node) THEN ExpectedOfItems(node.items, 1)
    ELSE <<OpenParen>> \o ExpectedOfItems(node.items, 1) \o <<CloseParen>>

\* C6: every group that is not a NOT-group is rendered between an opening and
\* a closing parenthesis, the root group of build_filter_string apart, and a
\* NOT-group is rendered without parentheses of its own.
C6_GroupParentheses ==
    /\ (op = "process_filter_element" /\ ret.kind = "return")
       => ret.value = ExpectedTokens(args.elm, FALSE)
    /\ (op = "build_filter_string" /\ ret.kind = "return")
       => ret.value.out_filter_list = ExpectedTokens(RootOf(args.filter_input_value), TRUE)

C6_Witness ==
    /\ op = "build_filter_string"
    /\ IdentityAdapter
    /\ args.filter_input_value
          = <<LPar, Token("term", TermA1), Token("op", PyStr(OR)), Token("term", TermB2), RPar,
              Token("op", PyStr(AND)), Token("op", PyStr(NOT)), Token("term", TermC3)>>
    /\ RootOf(args.filter_input_value)
          = Group(<<Group(<<TermA1, PyStr(OR), TermB2>>), PyStr(AND), NotGroup(TermC3)>>)
    /\ ret.value.filter_string
          = <<"(", "a", "=", "1", " ", "O", "R", " ", "b", "=", "2", ")",
              " ", "A", "N", "D", " ", " ", "N", "O", "T", " ", "c", "=", "3">>

\* the position of the parenthesis that closes the one open before position i,
\* at nesting depth d; 0 when there is none
RECURSIVE ClosingParen(_, _, _)
ClosingParen(tokens, i, d) ==
    IF i > Len(tokens) THEN 0
    ELSE IF tokens[i] = CloseParen
         THEN IF d = 1 THEN i ELSE ClosingParen(tokens, i + 1, d - 1)
    ELSE IF tokens[i] = OpenParen THEN ClosingParen(tokens, i + 1, d + 1)
    ELSE ClosingParen(tokens, i + 1, d)

\* the list is one pair of parentheses around all the rest
Enclosed(tokens) ==
    /\ Len(tokens) >= 2
    /\ tokens[1] = OpenParen
    /\ ClosingParen(tokens, 2, 1) = Len(tokens)

\* the filter string is a filter string of the grammar in one more pair of
\* parentheses
IsWrapped(filter_string) ==
    /\ Len(filter_string) >= 2
    /\ filter_string[1] = LPar
    /\ filter_string[Len(filter_string)] = RPar
    /\ parse_filter(SubSeq(filter_string, 2, Len(filter_string) - 1)).kind = "return"

IsRangeTerm(elm) ==
    /\ elm.type = "ParseResults"
    /\ is_filter_term(elm)
    /\ Item(elm, 2).type = "ParseResults"
    /\ PyLen(Item(elm, 2)) = 2

\* C8: for a range term, translate_filter is called on the low bound, then on
\* the high bound, and render_filter_term gets as value_range the tuple of the
\* translated low bound and the translated high bound; when the translation of
\* a bound raises, nothing is rendered.
C8_RangeBoundsTranslated ==
    (op = "process_filter_element" /\ IsRangeTerm(args.elm))
    => LET fkey == Item(args.elm, 0)
           low == Item(Item(args.elm, 2), 0)
           high == Item(Item(args.elm, 2), 1)
           t1 == translate_filter(fkey.val, low)
           t2 == translate_filter(fkey.val, high)
           calls == <<CallLog("translate_filter", fkey, "", low),
                      CallLog("translate_filter", fkey, "", high)>>
       IN /\ ret.kind = "return" <=> (t1.kind = "return" /\ t2.kind = "return")
          /\ ret.kind = "return" =>
                /\ Len(ret.invoked) = 3
                /\ SubSeq(ret.invoked, 1, 2) = calls
                /\ ret.invoked[3].fn = "render_filter_term"
                /\ ret.invoked[3].kw = "value_range"
                /\ ret.invoked[3].value = PyTuple(<<t1.value.items[2], t2.value.items[2]>>)
          /\ ret.kind = "raise" =>
                /\ ret.value = <<>>
                /\ ret.invoked \in {SubSeq(calls, 1, 1), calls}

C8_Witness ==
    /\ op = "process_filter_element"
    /\ args.elm = TermA15
    /\ ret.kind = "return"
    /\ ret.invoked[3].key = PyStr(<<"m", "s">>)
    /\ ret.invoked[3].value
          = PyTuple(<<PyInt(<<"1", "0", "0", "0">>), PyInt(<<"5", "0", "0", "0">>)>>)

\* the translations of the two bounds of the range term give different keys
BoundKeysDiffer(elm) ==
    /\ IsRangeTerm(elm)
    /\ LET t1 == translate_filter(Item(elm, 0).val, Item(Item(elm, 2), 0))
           t2 == translate_filter(Item(elm, 0).val, Item(Item(elm, 2), 1))
       IN /\ t1.kind = "return"
          /\ t2.kind = "return"
          /\ t1.value.items[1] # t2.value.items[1]

\* C9 as stated: when the translations of the bounds of a range term give
\* different provider keys, rendering raises instead of producing a term.
C9_Original_DifferentKeysRaise ==
    (op = "process_filter_element" /\ BoundKeysDiffer(args.elm))
    => ret.kind = "raise"

\* C9: when the translations of the bounds of a range term give different
\* provider keys, rendering raises nothing: the term is rendered under the
\* key of the low bound and the key of the high bound is dropped.
C9_LowBoundKeyUsed ==
    (op = "process_filter_element" /\ BoundKeysDiffer(args.elm))
    => LET t1 == translate_filter(Item(args.elm, 0).val, Item(Item(args.elm, 2), 0))
           t2 == translate_filter(Item(args.elm, 0).val, Item(Item(args.elm, 2), 1))
       IN /\ ret.kind = "return"
          /\ ret.invoked[3].fn = "render_filter_term"
          /\ ret.invoked[3].key = t1.value.items[1]
          /\ ret.invoked[3].value = PyTuple(<<t1.value.items[2], t2.value.items[2]>>)
          /\ ret.value = <<render_filter_term(t1.value.items[1], "value_range",
                                              ret.invoked[3].value)>>

C9_Witness ==
    /\ op = "process_filter_element"
    /\ BoundKeysDiffer(args.elm)
    /\ ret.kind = "return"
    /\ ret.value = <<<<"l", "o", "=", "[", "1", ",", "5", "]">>>>

\* the cases of translate_filter
DirectlyMapped(f) == f \in DOMAIN direct_filters_mapping
HasTranslator(f) == f \notin DOMAIN direct_filters_mapping
                    /\ f \in DOMAIN translate_filter_methods_registry

TranslateFilterReturns ==
    op = "translate_filter"
    => LET f == args.ac_field_name
           v == args.value
       IN /\ DirectlyMapped(f)
             => ret = Return(PyTuple(<<PyStr(direct_filters_mapping[f]), v>>), <<>>)
          /\ (HasTranslator(f)
              /\ CallFilterMethod(translate_filter_methods_registry[f], v).kind = "return")
             => ret = CallFilterMethod(translate_filter_methods_registry[f], v)

TranslateFilterFails ==
    /\ op = "translate_filter"
    /\ LET f == args.ac_field_name
       IN \/ ~DirectlyMapped(f) /\ ~HasTranslator(f)
          \/ /\ HasTranslator(f)
             /\ CallFilterMethod(translate_filter_methods_registry[f], args.value).kind = "raise"

\* C10 as stated: translate_filter returns the directly mapped key with the
\* value unchanged, or the pair of the translator, and fails with an error
\* kind of its own, distinct from the filter parsing error, when the field has
\* no entry or the translator raises.
C10_Original_DistinctErrorKind ==
    /\ TranslateFilterReturns
    /\ TranslateFilterFails
       => (ret.kind = "raise" /\ ret.exc # "ACFilterParsingException")

\* C10: translate_filter returns the directly mapped key with the value
\* unchanged, or the pair of the translator, and fails with
\* ACFilterParsingException, the error kind of a filter parsing failure, when
\* the field has no entry or the translator raises.
C10_TranslateFilter ==
    /\ TranslateFilterReturns
    /\ TranslateFilterFails
       => (ret.kind = "raise" /\ ret.exc = "ACFilterParsingException")

C10_Witness ==
    /\ op = "translate_filter"
    /\ HasTranslator(args.ac_field_name)
    /\ translate_filter_methods_registry[args.ac_field_name] = "translate_filter_scale"
    /\ args.value = PyStr(<<"w", "a", "v">>)
    /\ ret.kind = "raise"
    /\ ret.exc = "ACFilterParsingException"

-----------------------------------------------------------------------------
(* Supported-capability descriptors *)

\* list(d.keys()): the keys of a dict, each once
RECURSIVE KeysOf(_)
KeysOf(S) ==
    IF S = {} THEN <<>>
    ELSE LET k == CHOOSE x \in S : TRUE IN <<k>> \o KeysOf(S \ {k})

Keys(d) == KeysOf(DOMAIN d)

get_supported_fields ==
    Return(Keys(direct_fields_mapping) \o Keys(translate_field_methods_registry), <<>>)

get_supported_filters ==
    Return(Keys(direct_filters_mapping) \o Keys(translate_filter_methods_registry), <<>>)

\* the canonical sort options, in the order of the constant
AllSortOptions == <<"relevance", "popularity", "duration", "downloads">>
SORT_OPTIONS == SubSeq(AllSortOptions, 1, MaxSortOptions)

SortProbes == {<<SORT_OPTIONS[i], d>> : i \in 1..Len(SORT_OPTIONS), d \in BOOLEAN}

\* what a provider's sort translator does with each option and direction: it
\* translates it ("ok"), knows it as unsupported, is not implemented, or fails
Sorters == [SortProbes -> {"ok", "unsupported", "NotImplementedError", "error"}]

\* a provider's process_s_query_parameter
process_s_query_parameter(sorter, s, desc, raise_exception_if_unsupported) ==
    CASE sorter[<<s, desc>>] = "NotImplementedError" -> Raise("NotImplementedError", <<>>)
      [] sorter[<<s, desc>>] = "error" -> Raise("RuntimeError", <<>>)
      [] sorter[<<s, desc>>] = "unsupported" ->
            IF raise_exception_if_unsupported THEN Raise("ACException", <<>>)
            ELSE Return(EmptyDict, <<>>)
      [] OTHER -> Return([k \in {"sort"} |-> <<s, IF desc THEN "desc" ELSE "asc">>], <<>>)

\* the entry of a supported criterion, were the direction not marked
Criterion_unprefixed(option, desc) == <<option>>

\* the entry of a supported criterion: '-{0}'.format(option) when descending
Criterion(option, desc) == IF desc THEN <<"-", option>> ELSE <<option>>

Running(v) == [Return(v, <<>>) EXCEPT !.kind = "running"]

\* one probe, were "not implemented" passed over like an unsupported option
probe_not_implemented_passed(sorter, option, desc, acc) ==
    LET r == process_s_query_parameter(sorter, option, desc, TRUE)
        inv == Append(acc.invoked, [option |-> option, desc |-> desc])
    IN CASE r.kind = "return" ->
               [acc EXCEPT !.value = Append(acc.value, Criterion(option, desc)), !.invoked = inv]
         [] r.exc \in {"ACException", "NotImplementedError"} -> [acc EXCEPT !.invoked = inv]
         [] OTHER -> [acc EXCEPT !.kind = "raise", !.exc = r.exc, !.value = <<>>, !.invoked = inv]

\* one probe with its except clauses; acc is the outcome so far, its value the
\* supported_criteria list, its kind "running" until the call returns or raises
probe(sorter, option, desc, acc) ==
    LET r == process_s_query_parameter(sorter, option, desc, TRUE)
        inv == Append(acc.invoked, [option |-> option, desc |-> desc])
    IN CASE r.kind = "return" ->
               [acc EXCEPT !.value = Append(acc.value, Criterion(option, desc)), !.invoked = inv]
         [] r.exc = "ACException" -> [acc EXCEPT !.invoked = inv]
         [] r.exc = "NotImplementedError" ->
               [acc EXCEPT !.kind = "return", !.value = <<>>, !.invoked = inv]
         [] OTHER -> [acc EXCEPT !.kind = "raise", !.exc = r.exc, !.value = <<>>, !.invoked = inv]

\* for option in SORT_OPTIONS, from position i on: descending, then ascending
RECURSIVE probe_options_from(_, _, _)
probe_options_from(sorter, i, acc) ==
    IF i > Len(SORT_OPTIONS) \/ acc.kind # "running" THEN acc
    ELSE LET d == probe(sorter, SORT_OPTIONS[i], TRUE, acc)
             a == IF d.kind = "running" THEN probe(sorter, SORT_OPTIONS[i], FALSE, d) ELSE d
         IN probe_options_from(sorter, i + 1, a)

get_supported_sorting_criteria(sorter) ==
    LET r == probe_options_from(sorter, 1, Running(<<>>))
    IN IF r.kind = "running" THEN [r EXCEPT !.kind = "return"] ELSE r

-----------------------------------------------------------------------------
(* ACServiceTextSearchMixin.text_search                                     *)
(* A provider is the record of what its extension points do: q, f, size and *)
(* page are "ok" or "NotImplementedError", s is a sorter, extra the dict of *)
(* add_extra_search_query_params, send the result of the transport.         *)

QUERY_PARAM_QUERY == "q"
QUERY_PARAM_FILTER == "f"
QUERY_PARAM_SORT == "s"
QUERY_PARAM_SIZE == "size"
QUERY_PARAM_PAGE == "page"

\* "Parameter '{0}' not supported".format(name)
NotSupported(name) == <<"Parameter not supported", name>>

\* d.update(e)
Update(d, e) == [k \in DOMAIN d \cup DOMAIN e |-> IF k \in DOMAIN e THEN e[k] ELSE d[k]]

process_q_query_parameter(provider, q) ==
    IF provider.q = "NotImplementedError" THEN Raise("NotImplementedError", <<>>)
    ELSE Return([k \in {"query"} |-> q], <<>>)

\* a provider's filter parameter: the filter string of build_filter_string
process_f_query_parameter(provider, f) ==
    IF provider.f = "NotImplementedError" THEN Raise("NotImplementedError", <<>>)
    ELSE CHOOSE r \in {IF b.kind = "raise" THEN Raise(b.exc, <<>>)
                        ELSE Return([k \in {"filter"} |-> b.value.filter_string], <<>>)
                        : b \in {build_filter_string(f.val)}} : TRUE

process_size_query_parameter(provider, size) ==
    IF provider.size = "NotImplementedError" THEN Raise("NotImplementedError", <<>>)
    ELSE Return([k \in {"page_size"} |-> size.val], <<>>)

process_page_query_parameter(provider, page) ==
    IF provider.page = "NotImplementedError" THEN Raise("NotImplementedError", <<>>)
    ELSE Return([k \in {"page"} |-> page.val], <<>>)

add_extra_search_query_params(provider) == provider.extra

\* the external transport: the raw response, or its transport / auth error
send_request(provider, response) ==
    IF provider.send = "ok" THEN Return(response, <<>>) ELSE Raise(provider.send, <<>>)

\* the progress of a call: query_params built so far, the extension points
\* invoked, the warnings added and the params of every request sent
Started ==
    [kind |-> "running", value |-> <<>>, exc |-> "", invoked |-> <<>>, warned |-> <<>>,
     query_params |-> EmptyDict, sent |-> <<>>]

\* try: params.update(<r>), were every exception of the call turned into a warning
UpdateOrWarn_any_exception(st, hook, r, name) ==
    IF r.kind = "return"
    THEN [st EXCEPT !.query_params = Update(@, r.value), !.invoked = Append(@, hook)]
    ELSE [st EXCEPT !.warned = add_response_warning(@, NotSupported(name)),
                    !.invoked = Append(@, hook)]

\* try: params.update(<r>), were the warning of the except clause left out
UpdateOrWarn_silent(st, hook, r, name) ==
    CASE r.kind = "return" ->
            [st EXCEPT !.query_params = Update(@, r.value), !.invoked = Append(@, hook)]
      [] r.exc = "NotImplementedError" -> [st EXCEPT !.invoked = Append(@, hook)]
      [] OTHER -> [st EXCEPT !.kind = "raise", !.exc = r.exc, !.invoked = Append(@, hook)]

\* try: params.update(<r>)  except NotImplementedError as e:
\* self.add_response_warning(str(e)); r is the outcome of the extension point
UpdateOrWarn(st, hook, r, name) ==
    CASE r.kind = "return" ->
            [st EXCEPT !.query_params = Update(@, r.value), !.invoked = Append(@, hook)]
      [] r.exc = "NotImplementedError" ->
            [st EXCEPT !.warned = add_response_warning(@, NotSupported(name)),
                       !.invoked = Append(@, hook)]
      [] OTHER -> [st EXCEPT !.kind = "raise", !.exc = r.exc, !.invoked = Append(@, hook)]

\* one common parameter: looked up, and processed unless it is None
process_common_param(provider, st, name, common_search_params) ==
    IF st.kind # "running" THEN st
    ELSE IF name \notin DOMAIN common_search_params
    THEN [st EXCEPT !.kind = "raise", !.exc = "KeyError"]
    ELSE IF common_search_params[name] = PyNone THEN st
    ELSE IF name = QUERY_PARAM_SIZE
    THEN UpdateOrWarn(st, "process_size_query_parameter",
                      process_size_query_parameter(provider, common_search_params[name]), name)
    ELSE UpdateOrWarn(st, "process_page_query_parameter",
                      process_page_query_parameter(provider, common_search_params[name]), name)

\* the outcome holds the params dict in query_params
process_common_search_params(provider, common_search_params) ==
    process_common_param(provider,
        process_common_param(provider, Started, QUERY_PARAM_SIZE, common_search_params),
        QUERY_PARAM_PAGE, common_search_params)

\* Process 'q' query parameter
text_search_q(provider, q, st) ==
    UpdateOrWarn(st, "process_q_query_parameter", process_q_query_parameter(provider, q),
                 QUERY_PARAM_QUERY)

\* Process 'f' parameter (if specified)
text_search_f(provider, f, st) ==
    IF st.kind # "running" \/ f = PyNone THEN st
    ELSE CHOOSE u \in {UpdateOrWarn(st, "process_f_query_parameter", r, QUERY_PARAM_FILTER)
                        : r \in {process_f_query_parameter(provider, f)}} : TRUE

\* Process 's' parameter (if specified): a leading '-' asks for descending order
text_search_s(provider, s, st) ==
    IF st.kind # "running" \/ s = PyNone THEN st
    ELSE LET desc == Head(s.val) = "-"
             option == IF desc THEN s.val[2] ELSE s.val[1]
         IN UpdateOrWarn(st, "process_s_query_parameter",
                         process_s_query_parameter(provider.s, option, desc, FALSE),
                         QUERY_PARAM_SORT)

\* Process common search parameters
text_search_common(provider, common_search_params, st) ==
    IF st.kind # "running" THEN st
    ELSE LET c == process_common_search_params(provider, common_search_params)
             merged == [st EXCEPT !.invoked = @ \o c.invoked, !.warned = @ \o c.warned]
         IN IF c.kind = "raise" THEN [merged EXCEPT !.kind = "raise", !.exc = c.exc]
            ELSE [merged EXCEPT !.query_params = Update(@, c.query_params)]

\* the extra parameters added, were those already present not left out
params_to_add_overwriting(extra, query_params) == extra

\* {key: value for key, value in extra.items() if key not in query_params}
params_to_add(extra, query_params) ==
    [key \in DOMAIN extra \ DOMAIN query_params |-> extra[key]]

\* Add extra query parameters
text_search_extra(provider, st) ==
    IF st.kind # "running" THEN st
    ELSE [st EXCEPT
            !.query_params = Update(@, params_to_add(add_extra_search_query_params(provider),
                                                     st.query_params)),
            !.invoked = Append(@, "add_extra_search_query_params")]

\* the request sent, were a failed request sent once more
text_search_send_retrying(provider, response, st) ==
    IF st.kind # "running" THEN st
    ELSE LET r == send_request(provider, response)
             sent == [st EXCEPT !.sent = Append(@, st.query_params),
                                !.invoked = Append(@, "send_request")]
         IN IF r.kind = "raise"
            THEN [sent EXCEPT !.sent = Append(@, st.query_params),
                              !.invoked = Append(@, "send_request"),
                              !.kind = "raise", !.exc = r.exc]
            ELSE [sent EXCEPT !.value = r.value]

\* response = self.send_request(self.TEXT_SEARCH_ENDPOINT_URL, params=query_params)
text_search_send(provider, response, st) ==
    IF st.kind # "running" THEN st
    ELSE LET r == send_request(provider, response)
             sent == [st EXCEPT !.sent = Append(@, st.query_params),
                                !.invoked = Append(@, "send_request")]
         IN IF r.kind = "raise" THEN [sent EXCEPT !.kind = "raise", !.exc = r.exc]
            ELSE [sent EXCEPT !.value = r.value]

\* formatted_response = self.format_search_response(response, common_search_params, ...)
text_search_format(common_search_params, st) ==
    IF st.kind # "running" THEN st
    ELSE CHOOSE formatted \in
           {[st EXCEPT !.kind = r.kind, !.exc = r.exc, !.value = r.value,
                       !.invoked = Append(@, "format_search_response"),
                       !.warned = @ \o r.warned]
            : r \in {format_search_response(st.value, common_search_params)}} : TRUE

\* the statements of text_search in their order, each on the outcome of the
\* one before; response is what the transport answers when it answers
text_search(provider, response, q, f, s, common_search_params) ==
    CHOOSE formatted \in
      {text_search_format(common_search_params, sent) :
        sent \in {text_search_send(provider, response, extra) :
          extra \in {text_search_extra(provider, common) :
            common \in {text_search_common(provider, common_search_params, sorted) :
              sorted \in {text_search_s(provider, s, filtered) :
                filtered \in {text_search_f(provider, f, queried) :
                  queried \in {text_search_q(provider, q, Started)}}}}}}} : TRUE

-----------------------------------------------------------------------------
(* Inputs of the search calls *)

\* sorters of text search: every option translated, or sorting not implemented
SearchSorters ==
    {[p \in SortProbes |-> "ok"], [p \in SortProbes |-> "NotImplementedError"]}

ExtraParams ==
    {EmptyDict, [k \in {"query", "token"} |-> IF k = "query" THEN <<"extra">> ELSE <<"t0">>]}

Providers ==
    [q : {"ok", "NotImplementedError"}, f : {"ok", "NotImplementedError"},
     s : SearchSorters, size : {"ok", "NotImplementedError"},
     page : {"ok", "NotImplementedError"}, extra : ExtraParams,
     send : {"ok", "TransportError", "AuthError"}]

Queries == {<<"dogs">>}

\* the f parameter: None, or a filter string, grammatical or not
SearchFilters ==
    {PyNone,
     PyStr(Unparse(Group(<<TermA1, PyStr(AND), TermB2>>), TRUE)),
     PyStr(Unparse(TermC3, TRUE)),
     PyStr(<<LPar, Token("term", TermA1)>>)}

\* the s parameter: None, or an option, with '-' in front when descending
SearchSorts == {PyNone, PyStr(<<SORT_OPTIONS[1]>>), PyStr(<<"-", SORT_OPTIONS[1]>>)}

SearchCommonParams ==
    {[k \in {QUERY_PARAM_SIZE, QUERY_PARAM_PAGE, "fields"} |->
         CASE k = QUERY_PARAM_SIZE -> size
           [] k = QUERY_PARAM_PAGE -> PyInt(<<"2">>)
           [] OTHER -> PyList(<<FIELD_ID, "license">>)]
       : size \in {PyNone, PyInt(<<"15">>)}}
    \cup {[k \in {QUERY_PARAM_SIZE, QUERY_PARAM_PAGE} |->
             IF k = QUERY_PARAM_SIZE THEN PyInt(<<"15">>) ELSE PyNone]}

\* the raw response of the transport
SearchResponses == {[items |-> <<[k \in {SERVICE_ID_FIELDNAME} |-> <<"7">>]>>, total |-> 40]}

-----------------------------------------------------------------------------
\* an adapter that translates fields and filters both ways, with and without
\* a name that is mapped directly and has a translator as well
InitSearch ==
    /\ direct_fields_mapping \in {EmptyDict, [f \in {FIELD_ID, "license"} |-> DirectKey(f)]}
    /\ translate_field_methods_registry
          = conf_search(<<[name |-> "translate_field_id", translates |-> FIELD_ID],
                          [name |-> "translate_field_name", translates |-> "name"]>>, EmptyDict)
    /\ \E a \in {[direct |-> [f \in {FB, FC} |-> f],
                  registry |-> [f \in {FA} |-> "translate_filter_scale"]],
                 [direct |-> [f \in {FA} |-> <<"p", "a">>],
                  registry |-> [f \in {FA, FB} |-> IF f = FA THEN "translate_filter_by_value"
                                                             ELSE "translate_filter_scale"]]} :
          /\ direct_filters_mapping = a.direct
          /\ translate_filter_methods_registry = a.registry
    /\ render_syntax = KeyValueSyntax
    /\ warnings = <<>>
    /\ op = "none"
    /\ args = <<>>
    /\ ret = Return(<<>>, <<>>)

GetSupportedFields ==
    /\ op = "none"
    /\ op' = "get_supported_fields"
    /\ args' = <<>>
    /\ ret' = get_supported_fields
    /\ UNCHANGED <<config, warnings>>

GetSupportedFilters ==
    /\ op = "none"
    /\ op' = "get_supported_filters"
    /\ args' = <<>>
    /\ ret' = get_supported_filters
    /\ UNCHANGED <<config, warnings>>

GetSupportedSortingCriteria ==
    /\ op = "none"
    /\ \E sorter \in Sorters :
          /\ op' = "get_supported_sorting_criteria"
          /\ args' = [sorter |-> sorter]
          /\ ret' = get_supported_sorting_criteria(sorter)
    /\ UNCHANGED <<config, warnings>>

TextSearch ==
    /\ op = "none"
    /\ \E provider \in Providers, response \in SearchResponses, q \in Queries,
          f \in SearchFilters, s \in SearchSorts, p \in SearchCommonParams :
          /\ op' = "text_search"
          /\ args' = [provider |-> provider, response |-> response, q |-> q, f |-> f,
                      s |-> s, common_search_params |-> p]
          /\ ret' = text_search(provider, response, q, f, s, p)
          /\ warnings' = warnings \o ret'.warned
    /\ UNCHANGED config

NextSearch ==
    \/ GetSupportedFields
    \/ GetSupportedFilters
    \/ GetSupportedSortingCriteria
    \/ TextSearch

SpecSearch == InitSearch /\ [][NextSearch]_vars

-----------------------------------------------------------------------------
(* Capability descriptors: properties *)

\* the probes in the order the loop makes them
ProbeOrder ==
    [n \in 1..(2 * Len(SORT_OPTIONS)) |-> <<SORT_OPTIONS[(n + 1) \div 2], n % 2 = 1>>]

\* the first probe that ends the call without a list of its own, 0 if none
FirstEnding(sorter, kinds) ==
    IF \E n \in DOMAIN ProbeOrder : sorter[ProbeOrder[n]] \in kinds
    THEN CHOOSE n \in DOMAIN ProbeOrder :
            /\ sorter[ProbeOrder[n]] \in kinds
            /\ \A m \in 1..(n - 1) : sorter[ProbeOrder[m]] \notin kinds
    ELSE 0

\* C13: get_supported_sorting_criteria returns an empty list as soon as a
\* probe signals "not implemented": no later probe is made, whatever the
\* earlier probes accepted and the later ones would accept.
C13_EmptyWhenNotImplemented ==
    op = "get_supported_sorting_criteria"
    => LET n == FirstEnding(args.sorter, {"NotImplementedError", "error"})
       IN (n > 0 /\ args.sorter[ProbeOrder[n]] = "NotImplementedError")
          => /\ ret.kind = "return"
             /\ ret.value = <<>>
             /\ Len(ret.invoked) = n

C13_Witness ==
    /\ op = "get_supported_sorting_criteria"
    /\ args.sorter[ProbeOrder[1]] = "ok"
    /\ args.sorter[ProbeOrder[2]] = "ok"
    /\ args.sorter[ProbeOrder[3]] = "NotImplementedError"
    /\ args.sorter[ProbeOrder[4]] = "ok"
    /\ ret.kind = "return"
    /\ ret.value = <<>>
    /\ Len(ret.invoked) = 3

\* the entries of the probes from the n-th on that do not raise
RECURSIVE ExpectedCriteria(_, _)
ExpectedCriteria(sorter, n) ==
    IF n > Len(ProbeOrder) THEN <<>>
    ELSE LET option == ProbeOrder[n][1]
             desc == ProbeOrder[n][2]
             entry == IF desc THEN <<"-", option>> ELSE <<option>>
         IN (IF sorter[ProbeOrder[n]] = "ok" THEN <<entry>> ELSE <<>>)
            \o ExpectedCriteria(sorter, n + 1)

Names(list) == {list[i] : i \in 1..Len(list)}

\* the list names every key of the two dicts, nothing else, each name once
IsSetUnion(list, direct, registry) ==
    /\ Names(list) = DOMAIN direct \cup DOMAIN registry
    /\ Len(list) = Cardinality(DOMAIN direct \cup DOMAIN registry)

\* C14: get_supported_fields and get_supported_filters return the set union of
\* the keys of the direct mapping and of the registry: every such name, no
\* other name, and a name of both only once.
C14_Original_SetUnion ==
    /\ op = "get_supported_fields"
       => IsSetUnion(ret.value, direct_fields_mapping, translate_field_methods_registry)
    /\ op = "get_supported_filters"
       => IsSetUnion(ret.value, direct_filters_mapping, translate_filter_methods_registry)

-----------------------------------------------------------------------------
(* Text search: properties *)

\* the parameters of a call in the order text_search processes them
ParamOrder == <<QUERY_PARAM_QUERY, QUERY_PARAM_FILTER, QUERY_PARAM_SORT,
                QUERY_PARAM_SIZE, QUERY_PARAM_PAGE>>

\* whether the call is given the parameter
Given(a, name) ==
    CASE name = QUERY_PARAM_QUERY -> TRUE
      [] name = QUERY_PARAM_FILTER -> a.f # PyNone
      [] name = QUERY_PARAM_SORT -> a.s # PyNone
      [] OTHER -> a.common_search_params[name] # PyNone

\* the option and direction a sort parameter asks for
SortProbeOf(s) == IF Head(s.val) = "-" THEN <<s.val[2], TRUE>> ELSE <<s.val[1], FALSE>>

\* whether the processing of the parameter signals "not implemented"
Signals(a, name) ==
    /\ Given(a, name)
    /\ CASE name = QUERY_PARAM_QUERY -> a.provider.q = "NotImplementedError"
         [] name = QUERY_PARAM_FILTER -> a.provider.f = "NotImplementedError"
         [] name = QUERY_PARAM_SORT -> a.provider.s[SortProbeOf(a.s)] = "NotImplementedError"
         [] name = QUERY_PARAM_SIZE -> a.provider.size = "NotImplementedError"
         [] OTHER -> a.provider.page = "NotImplementedError"

\* the extension point of a parameter and the key of the provider parameter
\* it produces
HookOf(name) ==
    CASE name = QUERY_PARAM_QUERY -> "process_q_query_parameter"
      [] name = QUERY_PARAM_FILTER -> "process_f_query_parameter"
      [] name = QUERY_PARAM_SORT -> "process_s_query_parameter"
      [] name = QUERY_PARAM_SIZE -> "process_size_query_parameter"
      [] OTHER -> "process_page_query_parameter"

KeyOf(name) ==
    CASE name = QUERY_PARAM_QUERY -> "query"
      [] name = QUERY_PARAM_FILTER -> "filter"
      [] name = QUERY_PARAM_SORT -> "sort"
      [] name = QUERY_PARAM_SIZE -> "page_size"
      [] OTHER -> "page"

\* whether building the provider filter of the call fails
FilterBuildFails(a) ==
    /\ a.f # PyNone
    /\ a.provider.f = "ok"
    /\ build_filter_string(a.f.val).kind = "raise"

GivenParams(a) == SelectSeq(ParamOrder, LAMBDA n : Given(a, n))
SignallingParams(a) == SelectSeq(ParamOrder, LAMBDA n : Signals(a, n))

\* the extension points of a call that reaches the transport, in order
HooksBeforeSend(a) ==
    [i \in 1..Len(GivenParams(a)) |-> HookOf(GivenParams(a)[i])]
    \o <<"add_extra_search_query_params">>

Count(seq, x) == Cardinality({i \in 1..Len(seq) : seq[i] = x})

\* C11: when building the provider filter of a text search fails, for a filter
\* string outside the grammar or a filter field without translation, the call
\* raises the filter error, send_request is not called and no request is sent.
C11_FilterFailureAborts ==
    (op = "text_search" /\ FilterBuildFails(args))
    => /\ ret.kind = "raise"
       /\ ret.exc = "ACFilterParsingException"
       /\ ret.sent = <<>>
       /\ Count(ret.invoked, "send_request") = 0
       /\ ret.invoked[Len(ret.invoked)] = "process_f_query_parameter"

C11_Witness ==
    /\ op = "text_search"
    /\ args.f = PyStr(Unparse(TermC3, TRUE))
    /\ FC \notin DOMAIN direct_filters_mapping
    /\ args.provider.f = "ok"
    /\ args.provider.send = "ok"
    /\ ret.kind = "raise"
    /\ ret.exc = "ACFilterParsingException"
    /\ ret.sent = <<>>

\* C12: in a text search that no filter error aborts, each of q, f, s, size
\* and page whose processing signals "not implemented" gets exactly one
\* warning, in the order of processing, and adds nothing to the provider
\* parameters; every given parameter is processed, the parameters that do not
\* signal are sent, and send_request is called.
C12_NotImplementedIsWarning ==
    (op = "text_search" /\ ~FilterBuildFails(args))
    => LET signalling == SignallingParams(args)
           n == Len(signalling)
       IN /\ Len(ret.warned) >= n
          /\ SubSeq(ret.warned, 1, n) = [i \in 1..n |-> NotSupported(signalling[i])]
          /\ \A i \in (n + 1)..Len(ret.warned) : ret.warned[i][1] # NotSupported("")[1]
          /\ Len(ret.sent) = 1
          /\ Count(ret.invoked, "send_request") = 1
          /\ SubSeq(ret.invoked, 1, Len(HooksBeforeSend(args))) = HooksBeforeSend(args)
          /\ \A i \in 1..Len(ParamOrder) :
                LET name == ParamOrder[i]
                IN /\ Signals(args, name)
                      => (KeyOf(name) \in DOMAIN ret.sent[1]
                          => /\ KeyOf(name) \in DOMAIN args.provider.extra
                             /\ ret.sent[1][KeyOf(name)] = args.provider.extra[KeyOf(name)])
                   /\ (Given(args, name) /\ ~Signals(args, name))
                      => KeyOf(name) \in DOMAIN ret.sent[1]

C12_Witness ==
    /\ op = "text_search"
    /\ SignallingParams(args) = <<QUERY_PARAM_QUERY, QUERY_PARAM_SORT, QUERY_PARAM_PAGE>>
    /\ args.f # PyNone
    /\ args.provider.extra = EmptyDict
    /\ Len(ret.sent) = 1
    /\ DOMAIN ret.sent[1] = {"filter", "page_size"}
    /\ Len(ret.warned) = 3
    /\ warnings = ret.warned

\* C16: a text search calls send_request at most once and only after the
\* query, filter, sort, common and extra parameters have all been processed;
\* when send_request raises, its error leaves the call as it is, no second
\* request is sent and format_search_response is not called.
C16_SendOnceAfterProcessing ==
    op = "text_search"
    => /\ Len(ret.sent) <= 1
       /\ Count(ret.invoked, "send_request") = Len(ret.sent)
       /\ ret.sent # <<>>
          => /\ SubSeq(ret.invoked, 1, Len(HooksBeforeSend(args)) + 1)
                   = Append(HooksBeforeSend(args), "send_request")
             /\ args.provider.send # "ok"
                => /\ ret.kind = "raise"
                   /\ ret.exc = args.provider.send
                   /\ Count(ret.invoked, "format_search_response") = 0
                   /\ ret.invoked[Len(ret.invoked)] = "send_request"
             /\ args.provider.send = "ok"
                => ret.invoked[Len(ret.invoked)] = "format_search_response"

C16_Witness ==
    /\ op = "text_search"
    /\ args.provider.send = "AuthError"
    /\ Len(GivenParams(args)) = 5
    /\ ret.kind = "raise"
    /\ ret.exc = "AuthError"
    /\ Len(ret.sent) = 1
    /\ Len(ret.invoked) = 7

\* the parameters the query, filter, sort and common processing produce
ParamsBeforeExtra(a) ==
    [k \in {KeyOf(ParamOrder[i]) : i \in {j \in 1..Len(ParamOrder) :
                Given(a, ParamOrder[j]) /\ ~Signals(a, ParamOrder[j])}} |->
        CASE k = "query" -> a.q
          [] k = "filter" -> build_filter_string(a.f.val).value.filter_string
          [] k = "sort" -> IF Head(a.s.val) = "-" THEN <<a.s.val[2], "desc">>
                           ELSE <<a.s.val[1], "asc">>
          [] k = "page_size" -> a.common_search_params[QUERY_PARAM_SIZE].val
          [] OTHER -> a.common_search_params[QUERY_PARAM_PAGE].val]

\* C19: the extra parameters of add_extra_search_query_params never overwrite
\* a parameter the query, filter, sort or common processing produced: such a
\* key is sent with the earlier value, and every other extra key is sent with
\* its extra value.
C19_ExtraParamsNeverOverwrite ==
    (op = "text_search" /\ ret.sent # <<>>)
    => LET earlier == ParamsBeforeExtra(args)
           extra == args.provider.extra
       IN /\ DOMAIN ret.sent[1] = DOMAIN earlier \cup DOMAIN extra
          /\ \A k \in DOMAIN earlier : ret.sent[1][k] = earlier[k]
          /\ \A k \in DOMAIN extra \ DOMAIN earlier : ret.sent[1][k] = extra[k]

C19_Witness ==
    /\ op = "text_search"
    /\ "query" \in DOMAIN args.provider.extra
    /\ args.provider.q = "ok"
    /\ ret.sent # <<>>
    /\ ret.sent[1]["query"] = args.q
    /\ args.q # args.provider.extra["query"]
    /\ ret.sent[1]["token"] = <<"t0">>

-----------------------------------------------------------------------------
(* Rendering of nodes and values outside the parser's output *)

\* nodes that are neither a term, an operator nor a group
MalformedNodes ==
    {PyInt(<<"5">>), PyNone, PyBool(TRUE),
     PyStr(<<"X", "O", "R">>), PyStr(<<"n", "o", "r", "m">>), PyStr(<<"a", ":", "1">>),
     PyList(<<TermA1>>), PyTuple(<<TermA1, PyStr(AND), TermB2>>)}

\* groups that hold such a node
MalformedGroups ==
    {Group(<<TermB2, PyStr(AND), n>>) : n \in MalformedNodes}
    \cup {Group(<<TermB2, PyStr(<<"X", "O", "R">>), TermC3>>)}

RenderNodes ==
    MalformedNodes \cup MalformedGroups \cup FilterTerms
    \cup {Group(<<TermA1, PyStr(OR), TermB2>>), NotGroup(TermC3), PyStr(AND),
          PyStr(<<"n", "o", "t">>), Group(<<TermA15, PyStr(AND), NotGroup(TermBwav)>>)}

\* adapters whose translators return numbers, booleans, lists or None
RenderAdapters ==
    {[direct |-> d, registry |-> r] :
        d \in {EmptyDict, [f \in {FC} |-> f]},
        r \in {[f \in {FA, FB, FC} |->
                  CASE f = FA -> "translate_filter_flag"
                    [] f = FB -> "translate_filter_any_of"
                    [] OTHER -> "translate_filter_no_value"],
               [f \in {FA, FB} |-> IF f = FA THEN "translate_filter_scale"
                                              ELSE "translate_filter_no_value"],
               [f \in {FA, FB, FC} |-> "translate_filter_by_value"]}}

InitRender ==
    /\ direct_fields_mapping = EmptyDict
    /\ translate_field_methods_registry
          = conf_search(<<[name |-> "translate_field_id", translates |-> FIELD_ID]>>, EmptyDict)
    /\ \E a \in RenderAdapters :
          /\ direct_filters_mapping = a.direct
          /\ translate_filter_methods_registry = a.registry
    /\ render_syntax = KeyValueSyntax
    /\ warnings = <<>>
    /\ op = "none"
    /\ args = <<>>
    /\ ret = Return(<<>>, <<>>)

ProcessFilterNode ==
    /\ op = "none"
    /\ \E elm \in RenderNodes :
          /\ op' = "process_filter_element"
          /\ args' = [elm |-> elm, filter_list |-> <<>>]
          /\ ret' = process_filter_element(elm, Return(<<>>, <<>>))
    /\ UNCHANGED <<config, warnings>>

NextRender == ProcessFilterNode

SpecRender == InitRender /\ [][NextRender]_vars

-----------------------------------------------------------------------------
(* Rendering of nodes and values outside the parser's output: properties *)

\* a node that is a term, an operator or a group
IsTermNode(node) == node.type = "ParseResults" /\ is_filter_term(node)
IsOperatorNode(node) == is_operator(node)
IsGroupNode(node) == node.type = "ParseResults" /\ ~is_filter_term(node)

\* C17: for every node that is neither a term, an operator nor a group, a
\* number or a string that is no operator included, the renderer fails with
\* ACFilterParsingException, with no other error, and appends nothing.
C17_Original_MalformedNodeFails ==
    (/\ op = "process_filter_element"
     /\ ~IsTermNode(args.elm)
     /\ ~IsOperatorNode(args.elm)
     /\ ~IsGroupNode(args.elm))
    => /\ ret.kind = "raise"
       /\ ret.exc = "ACFilterParsingException"
       /\ ret.value = <<>>

\* the calls of render_filter_term a call has made
RenderTermCalls(log) == SelectSeq(log, LAMBDA c : c.fn = "render_filter_term")

\* C20: every call of render_filter_term gets exactly one of value_text,
\* value_number and value_range, whatever value translate_filter returned.
C20_Original_ExactlyOneValue ==
    op = "process_filter_element"
    => \A i \in 1..Len(RenderTermCalls(ret.invoked)) :
          RenderTermCalls(ret.invoked)[i].kw \in {"value_text", "value_number", "value_range"}

-----------------------------------------------------------------------------
(* The adapter with all its operations *)

Init == InitSearch

Next == NextFields \/ NextFilters \/ NextSearch \/ NextRender

Spec == Init /\ [][Next]_vars

\* C15: after conf_search and conf_textsearch, no call of translate_field,
\* translate_filter, translate_single_result, build_filter_string,
\* get_supported_fields, get_supported_filters, get_supported_sorting_criteria
\* or text_search adds, removes or replaces an entry of the field registry or
\* of the filter registry.
C15_RegistriesImmutable ==
    [][/\ translate_field_methods_registry' = translate_field_methods_registry
       /\ translate_filter_methods_registry' = translate_filter_methods_registry]_vars

C15_Witness ==
    /\ op = "translate_filter"
    /\ args.ac_field_name \notin DOMAIN direct_filters_mapping
    /\ args.ac_field_name \notin DOMAIN translate_filter_methods_registry
    /\ ret.kind = "raise"
    /\ DOMAIN translate_filter_methods_registry = {FA, FB}

-----------------------------------------------------------------------------
(* build_filter_string under every render syntax *)

\* an adapter whose filter translation is configured in every way the model
\* covers, and whose render primitives return any of the strings of the model
InitStrip ==
    /\ direct_fields_mapping = EmptyDict
    /\ translate_field_methods_registry
          = conf_search(<<[name |-> "translate_field_id", translates |-> FIELD_ID]>>, EmptyDict)
    /\ \E a \in FilterAdapters :
          /\ direct_filters_mapping = a.direct
          /\ translate_filter_methods_registry = a.registry
    /\ render_syntax \in RenderSyntaxes
    /\ warnings = <<>>
    /\ op = "none"
    /\ args = <<>>
    /\ ret = Return(<<>>, <<>>)

\* the statements of build_filter_string after the parse, on a parsed filter
\* whose root is a term, a NOT group or a group
RenderParsedFilter ==
    /\ op = "none"
    /\ \E root \in FilterElements :
          /\ op' = "render_parsed_filter"
          /\ args' = [parsed_filter |-> PyParseResults(<<root>>)]
          /\ ret' = render_parsed_filter(PyParseResults(<<root>>))
    /\ UNCHANGED <<config, warnings>>

NextStrip ==
    \/ BuildFilterString
    \/ RenderParsedFilter

SpecStrip == InitStrip /\ [][NextStrip]_vars

\* the root of the parsed filter of the call
RootOfCall ==
    IF op = "build_filter_string"
    THEN Item(parse_filter(args.filter_input_value).value, 0)
    ELSE Item(args.parsed_filter, 0)

\* for every token rendered for elm, in order, whether it is a parenthesis
\* emitted for a group (TRUE) or the result of a render primitive (FALSE)
RECURSIVE StructuralMarks(_)
RECURSIVE StructuralMarksOfItems(_, _)
StructuralMarksOfItems(items, i) ==
    IF i > Len(items) THEN <<>>
    ELSE StructuralMarks(items[i]) \o StructuralMarksOfItems(items, i + 1)
StructuralMarks(elm) ==
    IF elm.type = "str" \/ is_filter_term(elm) THEN <<FALSE>>
    ELSE IF is_not_structure(elm) THEN StructuralMarksOfItems(elm.items, 1)
    ELSE <<TRUE>> \o StructuralMarksOfItems(elm.items, 1) \o <<TRUE>>

\* the parentheses emitted for groups are balanced from token i on, depth of
\* them being open
RECURSIVE BalancedFrom(_, _, _, _)
BalancedFrom(tokens, marks, i, depth) ==
    IF i > Len(tokens) THEN depth = 0
    ELSE IF ~marks[i] THEN BalancedFrom(tokens, marks, i + 1, depth)
    ELSE IF tokens[i] = OpenParen THEN BalancedFrom(tokens, marks, i + 1, depth + 1)
    ELSE depth > 0 /\ BalancedFrom(tokens, marks, i + 1, depth - 1)

\* the list joined is the rendered list, or the rendered list without its
\* first and last token when these are the parentheses of the root group;
\* the parentheses of groups that stay are balanced
OnlyRootParenthesesRemoved(full, marks, out) ==
    /\ Len(marks) = Len(full)
    /\ IF out = full THEN BalancedFrom(out, marks, 1, 0)
       ELSE /\ Len(full) >= 2
            /\ out = SubSeq(full, 2, Len(full) - 1)
            /\ marks[1] /\ full[1] = OpenParen
            /\ marks[Len(full)] /\ full[Len(full)] = CloseParen
            /\ BalancedFrom(out, SubSeq(marks, 2, Len(marks) - 1), 1, 0)

\* C21: build_filter_string removes tokens from the rendered list only when
\* they are the opening and closing parenthesis emitted for the root group:
\* a token returned by render_filter_term or render_operator_term is never
\* removed, whatever the shape of the root and whatever string the render
\* primitives return, and the parentheses of groups left in the output are
\* balanced
C21_Original_OnlyRootParenthesesRemoved ==
    (op \in {"build_filter_string", "render_parsed_filter"} /\ ret.kind = "return") =>
        \A root \in {RootOfCall} :
            \A full \in {process_filter_element(root, Return(<<>>, <<>>)).value} :
                \A marks \in {StructuralMarks(root)} :
                    OnlyRootParenthesesRemoved(full, marks, ret.value.out_filter_list)

====
